---- MODULE Spec2Model ----
(***************************************************************************)
(* LBO return model of src/helloworld.py (LBOCalculator and main).         *)
(*                                                                         *)
(* Numbers are exact rationals <<n, d>> in lowest terms with d > 0.  The   *)
(* inputs are dyadic (halves and small integers), for which the Python     *)
(* float arithmetic of the source is exact as well, so every schedule      *)
(* value of the model is the value the program computes.                   *)
(***************************************************************************)
EXTENDS Integers, Sequences, FiniteSets, Bags

(***************************************************************************)
(* pc is the position in main's "Calculate IRR" handler; inp holds the     *)
(* eight inputs read from the page; ebitda_schedule, initial_cash_flows,   *)
(* debt_schedule, financial_schedule, unlevered_cash_flows, cash_schedule  *)
(* and decomposition are the locals of main with those names; exit_vals    *)
(* holds exit_ebitda, exit_tev, entry_equity and exit_equity; levered and  *)
(* unlevered hold the flows handed to the solver and the IRR returned.     *)
(* args and result are the arguments and the return value of one method    *)
(* call, for the specifications that exercise a single method.             *)
(***************************************************************************)

VARIABLES pc, inp, ebitda_schedule, initial_cash_flows, debt_schedule,
          financial_schedule, exit_vals, unlevered_cash_flows,
          levered, unlevered, cash_schedule, decomposition, args, result

vars == <<pc, inp, ebitda_schedule, initial_cash_flows, debt_schedule,
          financial_schedule, exit_vals, unlevered_cash_flows,
          levered, unlevered, cash_schedule, decomposition, args, result>>

(***************************************************************************)
(* Program constant and input bounds.                                      *)
(***************************************************************************)
Years == 5

MaxEbitda == 2

MaxTev == 2

MaxDebt == 3

MaxExitMultiple == 2

MaxFlow == 2

(***************************************************************************)
(* Exact rational arithmetic standing for the float operators.             *)
(***************************************************************************)
Abs(x) == IF x < 0 THEN -x ELSE x

RECURSIVE Gcd(_, _)
Gcd(a, b) == IF b = 0 THEN a ELSE Gcd(b, a % b)

Rat(n, d) ==
    LET g == Gcd(Abs(n), d)
    IN  <<n \div g, d \div g>>

Zero == <<0, 1>>

One == <<1, 1>>

Half == <<1, 2>>

RInt(k) == <<k, 1>>

RNeg(a) == <<-a[1], a[2]>>

RAdd(a, b) ==
    LET g == Gcd(a[2], b[2])
        l == (a[2] \div g) * b[2]
    IN  Rat(a[1] * (l \div a[2]) + b[1] * (l \div b[2]), l)

RSub(a, b) == RAdd(a, RNeg(b))

RMul(a, b) ==
    LET g1 == Gcd(Abs(a[1]), b[2])
        g2 == Gcd(Abs(b[1]), a[2])
    IN  IF a[1] = 0 \/ b[1] = 0 THEN Zero
        ELSE <<(a[1] \div g1) * (b[1] \div g2), (a[2] \div g2) * (b[2] \div g1)>>

RInv(a) == IF a[1] < 0 THEN <<-a[2], -a[1]>> ELSE <<a[2], a[1]>>

RDiv(a, b) == RMul(a, RInv(b))

RSign(a) == IF a[1] > 0 THEN 1 ELSE IF a[1] < 0 THEN -1 ELSE 0

RLe(a, b) == RSub(a, b)[1] <= 0

RLt(a, b) == RSub(a, b)[1] < 0

RMax(a, b) == IF RLt(a, b) THEN b ELSE a

RMin(a, b) == IF RLt(b, a) THEN b ELSE a

RAbs(a) == <<Abs(a[1]), a[2]>>

RECURSIVE RPow(_, _)
RPow(a, k) == IF k = 0 THEN One ELSE RMul(a, RPow(a, k - 1))

YearRange == 0 .. Years

(***************************************************************************)
(* LBOCalculator.calculate_ebitda_schedule                                 *)
(***************************************************************************)
calculate_ebitda_schedule(entry_ebitda, ebitda_cagr) ==
    [year \in YearRange |-> RMul(entry_ebitda, RPow(RAdd(One, ebitda_cagr), year))]

(***************************************************************************)
(* LBOCalculator.calculate_cash_flows: Year 0 is 0, later years are        *)
(* ebit - taxes - interest with the interest row of the schedule passed.   *)
(***************************************************************************)
calculate_cash_flows(ebitda_sched, debt_sched, tax_rate, capex_pct) ==
    [i \in YearRange |->
        LET ebitda == ebitda_sched[i]
            capex == RMul(ebitda, capex_pct)
            interest == debt_sched[i].Interest_Payment
            ebit == RSub(ebitda, capex)
            taxes == RMax(Zero, RMul(RSub(ebit, interest), tax_rate))
            available_cash_flow == RSub(RSub(ebit, taxes), interest)
        IN  IF i = 0 THEN Zero ELSE available_cash_flow]

(***************************************************************************)
(* LBOCalculator.calculate_financial_schedule: every year, Year 0          *)
(* included, gets the same computation; outflows are stored negative.      *)
(***************************************************************************)
calculate_financial_schedule(ebitda_sched, debt_sched, tax_rate, capex_pct) ==
    [i \in YearRange |->
        LET ebitda == ebitda_sched[i]
            capex == RNeg(RMul(ebitda, capex_pct))
            interest == RNeg(debt_sched[i].Interest_Payment)
            ebit == RAdd(ebitda, capex)
            ebt == RAdd(ebit, interest)
            taxes == RNeg(RMax(Zero, RMul(ebt, tax_rate)))
            net_income == RAdd(ebt, taxes)
            free_cash_flow == RSub(net_income, capex)
        IN  [EBITDA |-> ebitda, Less_Capex |-> capex, EBIT |-> ebit,
             Less_Interest |-> interest, EBT |-> ebt, Less_Taxes |-> taxes,
             Net_Income |-> net_income, Free_Cash_Flow |-> free_cash_flow]]

(***************************************************************************)
(* LBOCalculator.calculate_debt_schedule                                   *)
(***************************************************************************)
\* Variant: the paydown is not capped at the debt outstanding.
DebtPaydownUncapped(available_cash_flow_i, interest, beginning_debt) ==
    RMax(Zero, RSub(available_cash_flow_i, interest))

\* Variant: the interest payment is not taken off the cash offered to paydown.
DebtPaydownBeforeInterest(available_cash_flow_i, interest, beginning_debt) ==
    RMin(RMax(Zero, available_cash_flow_i), beginning_debt)

DebtPaydownOf(available_cash_flow_i, interest, beginning_debt) ==
    LET available_cash_after_interest ==
            RMax(Zero, RSub(available_cash_flow_i, interest))
    IN  RMin(available_cash_after_interest, beginning_debt)

calculate_debt_schedule(entry_debt, interest_rate, available_cash_flow) ==
    LET df[i \in YearRange] ==
            IF i = 0
            THEN [Beginning_Debt |-> entry_debt, Interest_Payment |-> Zero,
                  Debt_Paydown |-> Zero, Ending_Debt |-> entry_debt]
            ELSE LET beginning_debt == df[i - 1].Ending_Debt
                     interest == RMul(beginning_debt, interest_rate)
                     debt_paydown ==
                         DebtPaydownOf(available_cash_flow[i], interest, beginning_debt)
                 IN  [Beginning_Debt |-> beginning_debt,
                      Interest_Payment |-> interest,
                      Debt_Paydown |-> debt_paydown,
                      Ending_Debt |-> RSub(beginning_debt, debt_paydown)]
    IN  [i \in YearRange |-> df[i]]

(***************************************************************************)
(* LBOCalculator.calculate_cash_schedule                                   *)
(***************************************************************************)
calculate_cash_schedule(free_cash_flows, debt_paydown) ==
    LET df[i \in YearRange] ==
            LET beginning_cash == IF i > 0 THEN df[i - 1].Ending_Cash ELSE Zero
                cash_generation == free_cash_flows[i]
                less_debt_paydown == RNeg(debt_paydown[i])
            IN  [Beginning_Cash |-> beginning_cash,
                 Cash_Generation |-> cash_generation,
                 Less_Debt_Paydown |-> less_debt_paydown,
                 Ending_Cash |-> RAdd(RAdd(beginning_cash, cash_generation),
                                      less_debt_paydown)]
    IN  [i \in YearRange |-> df[i]]

(***************************************************************************)
(* Integers of any size, for the exact polynomial arithmetic npf.irr is    *)
(* described with.  A sequence x of limbs stands for the sum of            *)
(* x[i] * Base^(i-1).  BNorm brings every limb into 0 .. Base-1, lets a    *)
(* negative number end in the limb -1 and drops redundant high limbs; the  *)
(* zero is << >>.                                                          *)
(***************************************************************************)
Base == 1000

\* The columns lo .. hi with the carry taken in: their limbs and the carry out.
RECURSIVE BPropagate(_, _, _, _)
BPropagate(cols, lo, hi, carry) ==
    IF lo = hi
    THEN [limbs |-> <<(cols[lo] + carry) % Base>>,
          carry |-> (cols[lo] + carry) \div Base]
    ELSE LET mid == (lo + hi) \div 2
             low == BPropagate(cols, lo, mid, carry)
             high == BPropagate(cols, mid + 1, hi, low.carry)
         IN  [limbs |-> low.limbs \o high.limbs, carry |-> high.carry]

\* The limbs of the carry out of the last column.
RECURSIVE BCarry(_)
BCarry(carry) ==
    IF carry = 0 THEN << >>
    ELSE IF carry = -1 THEN <<-1>>
    ELSE <<carry % Base>> \o BCarry(carry \div Base)

\* x without its redundant high limbs: zeros under a non-negative number,
\* limbs Base - 1 under the final -1 of a negative one.
BTrim(x) ==
    LET n == Len(x)
        fill == IF x[n] = 0 THEN 0 ELSE Base - 1
        kept == {i \in 1 .. n - 1 : x[i] # fill}
        last == IF kept = {} THEN 0 ELSE CHOOSE i \in kept : \A j \in kept : j <= i
    IN  IF n = 0 THEN x
        ELSE IF x[n] = 0 THEN SubSeq(x, 1, last)
        ELSE IF x[n] = -1 THEN SubSeq(x, 1, last) \o <<-1>>
        ELSE x

BNorm(cols) ==
    IF cols = << >> THEN << >>
    ELSE LET sum == BPropagate(cols, 1, Len(cols), 0)
         IN  BTrim(sum.limbs \o BCarry(sum.carry))

BInt(n) == BNorm(<<n>>)

BSign(x) == IF x = << >> THEN 0 ELSE IF x[Len(x)] < 0 THEN -1 ELSE 1

BLimb(x, i) == IF i <= Len(x) THEN x[i] ELSE 0

BLen(x, y) == IF Len(x) < Len(y) THEN Len(y) ELSE Len(x)

BAdd(x, y) == BNorm([i \in 1 .. BLen(x, y) |-> BLimb(x, i) + BLimb(y, i)])

BSub(x, y) == BNorm([i \in 1 .. BLen(x, y) |-> BLimb(x, i) - BLimb(y, i)])

BNeg(x) == BSub(<< >>, x)

\* Column k of the product: the sum of x[i] * y[k + 1 - i] for i in lo .. hi.
RECURSIVE BColumn(_, _, _, _, _)
BColumn(x, y, k, lo, hi) ==
    IF lo > hi THEN 0
    ELSE IF lo = hi THEN BLimb(y, k + 1 - lo) * x[lo]
    ELSE BColumn(x, y, k, lo, (lo + hi) \div 2)
             + BColumn(x, y, k, ((lo + hi) \div 2) + 1, hi)

BMul(x, y) ==
    IF x = << >> \/ y = << >> THEN << >>
    ELSE BNorm([k \in 1 .. Len(x) + Len(y) - 1 |->
                   BColumn(x, y, k, 1, IF k < Len(x) THEN k ELSE Len(x))])

\* The limbs hi down to lo of x divided by the integer b > 0, with the
\* remainder rem of the limbs above: the quotient's limbs and the remainder.
RECURSIVE BDivFrom(_, _, _, _, _)
BDivFrom(x, b, lo, hi, rem) ==
    IF lo = hi
    THEN [limbs |-> <<(rem * Base + x[lo]) \div b>>, rem |-> (rem * Base + x[lo]) % b]
    ELSE LET mid == (lo + hi) \div 2
             high == BDivFrom(x, b, mid + 1, hi, rem)
             low == BDivFrom(x, b, lo, mid, high.rem)
         IN  [limbs |-> low.limbs \o high.limbs, rem |-> low.rem]

\* x divided by the integer b > 0, for x a multiple of b.
BDivSmall(x, b) ==
    IF x = << >> THEN << >> ELSE BNorm(BDivFrom(x, b, 1, Len(x), 0).limbs)

(***************************************************************************)
(* Polynomials in u = 1 + rate: a sequence of coefficients, highest power  *)
(* first.  The flows f[0] .. f[Years] have net present value zero at rate  *)
(* > -1 exactly when the polynomial f[0] u^Years + ... + f[Years] is zero  *)
(* at u > 0.                                                               *)
(***************************************************************************)
Lcm(a, b) == (a \div Gcd(a, b)) * b

RECURSIVE DenLcm(_, _)
DenLcm(flows, n) == IF n < 0 THEN 1 ELSE Lcm(flows[n][2], DenLcm(flows, n - 1))

FlowInts(flows) ==
    [i \in 1 .. Years + 1 |-> flows[i - 1][1] * (DenLcm(flows, Years) \div flows[i - 1][2])]

\* p without its leading and trailing zero coefficients.
PolyTrim(p) ==
    LET nz == {i \in 1 .. Len(p) : p[i] # 0}
    IN  IF nz = {} THEN << >>
        ELSE SubSeq(p, CHOOSE i \in nz : \A j \in nz : i <= j,
                       CHOOSE i \in nz : \A j \in nz : j <= i)

RECURSIVE Content(_, _)
Content(p, i) == IF i = 0 THEN 0 ELSE Gcd(Abs(p[i]), Content(p, i - 1))

\* The flows as a polynomial with integer coefficients without a common
\* factor, first coefficient positive and last coefficient non-zero: it has
\* the zeros u > 0 of the flows' polynomial.
FlowPoly(flows) ==
    LET t == PolyTrim(FlowInts(flows))
    IN  [i \in 1 .. Len(t) |->
            (IF t[1] < 0 THEN -1 ELSE 1) * (t[i] \div Content(t, Len(t)))]

\* Number of sign changes along a sequence of signs, zeros skipped.
Variations(s) ==
    LET nz == SelectSeq(s, LAMBDA v : v # 0)
    IN  Cardinality({i \in 1 .. Len(nz) - 1 : nz[i] # nz[i + 1]})

Sign(n) == IF n > 0 THEN 1 ELSE IF n < 0 THEN -1 ELSE 0

BPoly(p) == [i \in 1 .. Len(p) |-> BInt(p[i])]

RECURSIVE BPolyStrip(_)
BPolyStrip(p) == IF p # << >> /\ p[1] = << >> THEN BPolyStrip(Tail(p)) ELSE p

BPolyNeg(p) == [i \in 1 .. Len(p) |-> BNeg(p[i])]

BPolyDeriv(p) == [i \in 1 .. Len(p) - 1 |-> BMul(BInt(Len(p) - i), p[i])]

\* p(u) * u[2]^degree for the rational u = <<u[1], u[2]>>.
RECURSIVE BEvalFrom(_, _, _, _, _)
BEvalFrom(p, u, i, v, den) ==
    IF i > Len(p) THEN v
    ELSE BEvalFrom(p, u, i + 1, BAdd(BMul(v, BInt(u[1])), BMul(p[i], den)),
                   BMul(den, BInt(u[2])))

BEval(p, u) == BEvalFrom(p, u, 1, << >>, BInt(1))

\* The remainder of a divided by b, times a positive number.
RECURSIVE BPolyRem(_, _)
BPolyRem(a, b) ==
    IF Len(a) < Len(b) THEN a
    ELSE LET mult == IF BSign(b[1]) < 0 THEN BNeg(b[1]) ELSE b[1]
             fac == IF BSign(b[1]) < 0 THEN BNeg(a[1]) ELSE a[1]
         IN  BPolyRem(BPolyStrip([i \in 1 .. Len(a) |->
                                     IF i <= Len(b)
                                     THEN BSub(BMul(mult, a[i]), BMul(fac, b[i]))
                                     ELSE BMul(mult, a[i])]), b)

\* Sturm's sequence of p: p, p', and the negated remainders down to a constant.
RECURSIVE SturmTail(_, _)
SturmTail(a, b) ==
    IF b = << >> THEN <<a>> ELSE <<a>> \o SturmTail(b, BPolyNeg(BPolyRem(a, b)))

SturmChain(p) == SturmTail(p, BPolyDeriv(p))

SturmAt(chain, u) == Variations([i \in 1 .. Len(chain) |-> BSign(BEval(chain[i], u))])

SturmAtInfinity(chain) == Variations([i \in 1 .. Len(chain) |-> BSign(chain[i][1])])

\* Sturm's theorem: the number of distinct zeros u of p with lo < u <= hi,
\* and with lo < u, for lo and hi that are not zeros of p.
RootsBetween(p, lo, hi) ==
    LET chain == SturmChain(p)
    IN  SturmAt(chain, lo) - SturmAt(chain, hi)

RootsAbove(p, lo) ==
    LET chain == SturmChain(p)
    IN  SturmAt(chain, lo) - SturmAtInfinity(chain)

(***************************************************************************)
(* The rational zeros u > 0 of p: u = a/b in lowest terms with a dividing  *)
(* the last and b the first coefficient, a - b dividing p(1) and a + b     *)
(* dividing p(-1).                                                         *)
(***************************************************************************)
Divisors(n) == {d \in 1 .. n : n % d = 0}

RECURSIVE PolyAt(_, _, _)
PolyAt(p, x, i) == IF i = 0 THEN 0 ELSE p[i] + x * PolyAt(p, x, i - 1)

RootCandidates(p) ==
    {u \in Divisors(Abs(p[Len(p)])) \X Divisors(p[1]) :
        /\ Gcd(u[1], u[2]) = 1
        /\ IF u[1] = u[2] THEN PolyAt(p, 1, Len(p)) = 0
           ELSE PolyAt(p, 1, Len(p)) % Abs(u[1] - u[2]) = 0
        /\ PolyAt(p, -1, Len(p)) % (u[1] + u[2]) = 0}

RationalRoots(p) == {u \in RootCandidates(p) : BEval(BPoly(p), u) = << >>}

\* p divided by u[2] * x - u[1], for a zero u of p.
RECURSIVE BDivLinearFrom(_, _, _, _)
BDivLinearFrom(p, u, k, prev) ==
    IF k >= Len(p) THEN << >>
    ELSE LET c == BDivSmall(BAdd(p[k], BMul(BInt(u[1]), prev)), u[2])
         IN  <<c>> \o BDivLinearFrom(p, u, k + 1, c)

RECURSIVE DivideOut(_, _)
DivideOut(p, u) ==
    IF Len(p) > 1 /\ BEval(p, u) = << >>
    THEN DivideOut(BDivLinearFrom(p, u, 1, << >>), u)
    ELSE p

\* p without the factors of its rational zeros.
RECURSIVE Deflate(_, _)
Deflate(p, roots) ==
    IF roots = {} THEN p
    ELSE LET u == CHOOSE r \in roots : TRUE
         IN  Deflate(DivideOut(p, u), roots \ {u})

(***************************************************************************)
(* Numbers that need not be rational.  The fifth root of line 146 and the  *)
(* rate npf.irr returns are in general irrational, so the values computed  *)
(* from them are kept exact as polynomials with rational coefficients over *)
(* two kinds of atoms:                                                     *)
(*   [op |-> "root5", arg |-> x]  the number x ** (1/5), for a rational x  *)
(*                                in which no prime has an exponent        *)
(*                                outside -2 .. 2, and x # 1;              *)
(*   [op |-> "irr", arg |-> p]    the rate npf.irr returns for the flows   *)
(*                                p, a rate that is neither rational nor a *)
(*                                fifth root less one, or that ties with   *)
(*                                its negative.                            *)
(* A polynomial is a function from monomials (bags of atoms) to non-zero   *)
(* coefficients; a rational q is the polynomial SConst(q).  A monomial     *)
(* holds at most one root5 atom, once: fifth roots are multiplied under    *)
(* the root and fifth powers taken out, so that two polynomials over root5 *)
(* atoms are equal exactly when they denote the same number.               *)
(***************************************************************************)
SConst(q) == IF q = Zero THEN [m \in {} |-> Zero] ELSE [m \in {EmptyBag} |-> q]

SZero == SConst(Zero)

SOne == SConst(One)

SAtom(atom) == [m \in {SetToBag({atom})} |-> One]

SCoef(p, m) == IF m \in DOMAIN p THEN p[m] ELSE Zero

SNormal(f) == [m \in {k \in DOMAIN f : f[k] # Zero} |-> f[m]]

SNeg(p) == [m \in DOMAIN p |-> RNeg(p[m])]

SAdd(p, q) == SNormal([m \in (DOMAIN p) \cup (DOMAIN q) |-> RAdd(SCoef(p, m), SCoef(q, m))])

SSub(p, q) == SAdd(p, SNeg(q))

\* The atoms a value is written with.
SAtoms(p) == UNION {DOMAIN m : m \in DOMAIN p}

RECURSIVE Multiplicity(_, _)
Multiplicity(n, p) == IF n % p = 0 THEN 1 + Multiplicity(n \div p, p) ELSE 0

RECURSIVE IntPow(_, _)
IntPow(p, k) == IF k = 0 THEN 1 ELSE p * IntPow(p, k - 1)

\* The least prime factor of n >= 2.
LeastFactor(n) ==
    LET small == {d \in 2 .. n : d <= n \div d /\ n % d = 0}
    IN  IF small = {} THEN n ELSE CHOOSE d \in small : \A e \in small : d <= e

\* The integer n >= 1 as out^5 * in, no prime with an exponent outside
\* -2 .. 2 in the rational in.
RECURSIVE Root5SplitInt(_)
Root5SplitInt(n) ==
    IF n = 1 THEN [out |-> One, in |-> One]
    ELSE LET p == LeastFactor(n)
             v == Multiplicity(n, p)
             rest == Root5SplitInt(n \div IntPow(p, v))
         IN  IF v % 5 <= 2
             THEN [out |-> RMul(rest.out, RInt(IntPow(p, v \div 5))),
                   in |-> RMul(rest.in, RInt(IntPow(p, v % 5)))]
             ELSE [out |-> RMul(rest.out, RInt(IntPow(p, (v \div 5) + 1))),
                   in |-> RMul(rest.in, Rat(1, IntPow(p, 5 - (v % 5))))]

\* The rational x > 0 as out^5 * in.
Root5Split(x) ==
    [out |-> RDiv(Root5SplitInt(x[1]).out, Root5SplitInt(x[2]).out),
     in |-> RDiv(Root5SplitInt(x[1]).in, Root5SplitInt(x[2]).in)]

IsRoot5(atom) == atom.op = "root5" /\ atom.arg[1] > 0

RECURSIVE RootPart(_, _)
RootPart(m, atoms) ==
    IF atoms = {} THEN One
    ELSE LET a == CHOOSE b \in atoms : TRUE
         IN  RMul(IF IsRoot5(a) THEN RPow(a.arg, m[a]) ELSE One,
                  RootPart(m, atoms \ {a}))

\* The product of two monomials: a rational coefficient and a monomial.
MonoMul(m1, m2) ==
    LET s == Root5Split(RMul(RootPart(m1, DOMAIN m1), RootPart(m2, DOMAIN m2)))
        rest == [a \in {b \in DOMAIN m1 : ~ IsRoot5(b)} |-> m1[a]]
                    (+) [a \in {b \in DOMAIN m2 : ~ IsRoot5(b)} |-> m2[a]]
    IN  [coef |-> s.out,
         mono |-> IF s.in = One THEN rest
                  ELSE rest (+) SetToBag({[op |-> "root5", arg |-> s.in]})]

RECURSIVE RSumOver(_, _)
RSumOver(S, f) ==
    IF S = {} THEN Zero
    ELSE LET e == CHOOSE x \in S : TRUE
         IN  RAdd(f[e], RSumOver(S \ {e}, f))

SMul(p, q) ==
    LET pairs == (DOMAIN p) \X (DOMAIN q)
        prod == [pr \in pairs |->
                    RMul(RMul(p[pr[1]], q[pr[2]]), MonoMul(pr[1], pr[2]).coef)]
        monomials == {MonoMul(pr[1], pr[2]).mono : pr \in pairs}
    IN  SNormal([m \in monomials |->
                    RSumOver({pr \in pairs : MonoMul(pr[1], pr[2]).mono = m}, prod)])

\* x ** (1/5): for x > 0 a rational times the root5 atom of the part of x that
\* is not a fifth power; for x < 0 the atom root5 of x stands for what **
\* yields for a negative base.
Root5(x) ==
    IF x = Zero THEN SZero
    ELSE IF x[1] < 0 THEN SAtom([op |-> "root5", arg |-> x])
    ELSE IF Root5Split(x).in = One THEN SConst(Root5Split(x).out)
    ELSE [m \in {SetToBag({[op |-> "root5", arg |-> Root5Split(x).in]})} |->
             Root5Split(x).out]

(***************************************************************************)
(* npf.irr as called by calculate_irr: the rate > -1 of smallest magnitude *)
(* at which the net present value of the flows is zero, NaN when there is  *)
(* none.  Whether there is one, and whether a rational one is the nearest  *)
(* to zero, is decided exactly: without a sign change in the flows there   *)
(* is none and with an odd number of them there is one (rule of signs),    *)
(* and otherwise Sturm's theorem counts them.  The rate is a rational when *)
(* it is one, except when it ties with its negative, where the choice is   *)
(* left to the library; the fifth root of -f[Years] / f[0] less one when   *)
(* only the first and the last flow are non-zero; and the atom "irr" of    *)
(* the flows otherwise.                                                    *)
(***************************************************************************)
NoSignChange(flows) ==
    ~ ((\E y \in YearRange : RSign(flows[y]) > 0) /\ (\E y \in YearRange : RSign(flows[y]) < 0))

IrrAtom(p) == [op |-> "irr", arg |-> p]

\* Distance of the rate u - 1 from zero.
RateSize(u) == RAbs(RSub(u, One))

npf_irr(flows) ==
    LET p == FlowPoly(flows)
        changes == Variations([i \in 1 .. Len(p) |-> Sign(p[i])])
        roots == RationalRoots(p)
        q == Deflate(BPoly(p), roots)
        nearest == {u \in roots : \A w \in roots : RLe(RateSize(u), RateSize(w))}
        size == RateSize(CHOOSE u \in nearest : TRUE)
        atom == [nan |-> FALSE, val |-> SAtom(IrrAtom(p))]
    IN  IF changes = 0 THEN [nan |-> TRUE, val |-> SZero]
        ELSE IF roots = {}
        THEN IF changes % 2 = 1 \/ RootsAbove(q, Zero) > 0
             THEN IF Len(p) = Years + 1 /\ \A i \in 2 .. Years : p[i] = 0
                  THEN [nan |-> FALSE,
                        val |-> SSub(Root5(Rat(-p[Years + 1], p[1])), SOne)]
                  ELSE atom
             ELSE [nan |-> TRUE, val |-> SZero]
        ELSE IF size = Zero THEN [nan |-> FALSE, val |-> SZero]
        ELSE IF /\ Variations([i \in 1 .. Len(q) |-> BSign(q[i])]) > 0
                /\ RootsBetween(q, RMax(Zero, RSub(One, size)), RAdd(One, size)) > 0
        THEN atom
        ELSE IF Cardinality(nearest) > 1 THEN atom
        ELSE [nan |-> FALSE, val |-> SConst(RSub(CHOOSE u \in nearest : TRUE, One))]

(***************************************************************************)
(* LBOCalculator.calculate_irr                                             *)
(***************************************************************************)
IrrFlows(entry_equity, exit_equity, cash_flows) ==
    [y \in YearRange |->
        IF y = 0 THEN RNeg(entry_equity)
        ELSE IF y = Years THEN exit_equity
        ELSE cash_flows[y]]

IrrFallback(irr) == IF irr.nan THEN SZero ELSE irr.val

calculate_irr(entry_equity, exit_equity, cash_flows) ==
    IrrFallback(npf_irr(IrrFlows(entry_equity, exit_equity, cash_flows)))

(***************************************************************************)
(* LBOCalculator.calculate_irr_decomposition.  x ** (1/self.years) is the  *)
(* fifth root Root5(x).                                                    *)
(***************************************************************************)
\* Variant: the residual leaves the yield out.
CovarianceWithoutYield(unlevered_irr, tev_growth, yield_component) ==
    SSub(unlevered_irr, tev_growth)

Covariance(unlevered_irr, tev_growth, yield_component) ==
    SSub(unlevered_irr, SAdd(tev_growth, yield_component))

calculate_irr_decomposition(entry_ebitda, exit_ebitda, entry_multiple, exit_multiple, levered_irr, unlevered_irr) ==
    LET ebitda_growth == SSub(Root5(RDiv(exit_ebitda, entry_ebitda)), SOne)
        multiple_change == SSub(Root5(RDiv(exit_multiple, entry_multiple)), SOne)
        tev_growth == SSub(SMul(SAdd(SOne, ebitda_growth), SAdd(SOne, multiple_change)), SOne)
        yield_component == SConst(RDiv(One, entry_multiple))
        covariance == Covariance(unlevered_irr, tev_growth, yield_component)
        leverage_impact == SSub(levered_irr, unlevered_irr)
    IN  [EBITDA_Growth |-> ebitda_growth, Multiple_Change |-> multiple_change,
         TEV_Growth |-> tev_growth, Yield |-> yield_component,
         Covariance |-> covariance, Unlevered_IRR |-> unlevered_irr,
         Leverage_Impact |-> leverage_impact, Levered_IRR |-> levered_irr]

(***************************************************************************)
(* main: the "Calculate IRR" handler, one action per calculation step.     *)
(***************************************************************************)
Null == <<>>

EbitdaVals == {RInt(k) : k \in 1 .. MaxEbitda}

CagrVals == {RNeg(Half), Zero, Half}

TevVals == {RInt(4 * k) : k \in 1 .. MaxTev}

ExitMultipleVals == {RInt(k) : k \in 1 .. MaxExitMultiple}

DebtVals == {RInt(4 * k) : k \in 0 .. MaxDebt}

PctVals == {Zero, Half}

Assumptions ==
    [entry_ebitda : EbitdaVals, ebitda_cagr : CagrVals, entry_tev : TevVals,
     exit_multiple : ExitMultipleVals, entry_debt : DebtVals, tax_rate : PctVals,
     interest_rate : PctVals, capex_pct : PctVals]

\* initial_debt_df of main: a debt schedule of zeros.
initial_debt_df ==
    [i \in YearRange |-> [Beginning_Debt |-> Zero, Interest_Payment |-> Zero,
                          Debt_Paydown |-> Zero, Ending_Debt |-> Zero]]

Column(schedule, field) == [i \in YearRange |-> schedule[i][field]]

ExitEquity(exit_tev, debt_sched) == RSub(exit_tev, debt_sched[Years].Ending_Debt)

Init ==
    /\ pc = "input"
    /\ inp \in Assumptions
    /\ ebitda_schedule = Null
    /\ initial_cash_flows = Null
    /\ debt_schedule = Null
    /\ financial_schedule = Null
    /\ exit_vals = Null
    /\ unlevered_cash_flows = Null
    /\ levered = Null
    /\ unlevered = Null
    /\ cash_schedule = Null
    /\ decomposition = Null
    /\ args = Null
    /\ result = Null

EbitdaSchedule ==
    /\ pc = "input"
    /\ ebitda_schedule' = calculate_ebitda_schedule(inp.entry_ebitda, inp.ebitda_cagr)
    /\ pc' = "ebitda"
    /\ UNCHANGED <<inp, initial_cash_flows, debt_schedule, financial_schedule,
                   exit_vals, unlevered_cash_flows, levered, unlevered,
                   cash_schedule, decomposition, args, result>>

InitialCashFlows ==
    /\ pc = "ebitda"
    /\ initial_cash_flows' =
           calculate_cash_flows(ebitda_schedule, initial_debt_df, inp.tax_rate, inp.capex_pct)
    /\ pc' = "cash_flows"
    /\ UNCHANGED <<inp, ebitda_schedule, debt_schedule, financial_schedule,
                   exit_vals, unlevered_cash_flows, levered, unlevered,
                   cash_schedule, decomposition, args, result>>

DebtSchedule ==
    /\ pc = "cash_flows"
    /\ debt_schedule' =
           calculate_debt_schedule(inp.entry_debt, inp.interest_rate, initial_cash_flows)
    /\ pc' = "debt"
    /\ UNCHANGED <<inp, ebitda_schedule, initial_cash_flows, financial_schedule,
                   exit_vals, unlevered_cash_flows, levered, unlevered,
                   cash_schedule, decomposition, args, result>>

FinancialSchedule ==
    /\ pc = "debt"
    /\ financial_schedule' =
           calculate_financial_schedule(ebitda_schedule, debt_schedule,
                                        inp.tax_rate, inp.capex_pct)
    /\ pc' = "financial"
    /\ UNCHANGED <<inp, ebitda_schedule, initial_cash_flows, debt_schedule,
                   exit_vals, unlevered_cash_flows, levered, unlevered,
                   cash_schedule, decomposition, args, result>>

ExitValues ==
    /\ pc = "financial"
    /\ LET exit_ebitda == ebitda_schedule[Years]
           exit_tev == RMul(exit_ebitda, inp.exit_multiple)
       IN  exit_vals' = [exit_ebitda |-> exit_ebitda,
                         exit_tev |-> exit_tev,
                         entry_equity |-> RSub(inp.entry_tev, inp.entry_debt),
                         exit_equity |-> ExitEquity(exit_tev, debt_schedule)]
    /\ pc' = "exit"
    /\ UNCHANGED <<inp, ebitda_schedule, initial_cash_flows, debt_schedule,
                   financial_schedule, unlevered_cash_flows, levered, unlevered,
                   cash_schedule, decomposition, args, result>>

UnleveredCashFlows ==
    /\ pc = "exit"
    /\ unlevered_cash_flows' =
           calculate_cash_flows(ebitda_schedule, initial_debt_df, inp.tax_rate, inp.capex_pct)
    /\ pc' = "unlevered_flows"
    /\ UNCHANGED <<inp, ebitda_schedule, initial_cash_flows, debt_schedule,
                   financial_schedule, exit_vals, levered, unlevered,
                   cash_schedule, decomposition, args, result>>

LeveredIrr ==
    /\ pc = "unlevered_flows"
    /\ LET cash_flows == Column(financial_schedule, "Free_Cash_Flow")
       IN  levered' =
               [flows |-> IrrFlows(exit_vals.entry_equity, exit_vals.exit_equity, cash_flows),
                irr |-> calculate_irr(exit_vals.entry_equity, exit_vals.exit_equity,
                                      cash_flows)]
    /\ pc' = "levered_irr"
    /\ UNCHANGED <<inp, ebitda_schedule, initial_cash_flows, debt_schedule,
                   financial_schedule, exit_vals, unlevered_cash_flows, unlevered,
                   cash_schedule, decomposition, args, result>>

UnleveredIrr ==
    /\ pc = "levered_irr"
    /\ LET unlevered_entry_equity == inp.entry_tev
           unlevered_exit_equity == exit_vals.exit_tev
       IN  unlevered' =
               [flows |-> IrrFlows(unlevered_entry_equity, unlevered_exit_equity,
                                   unlevered_cash_flows),
                irr |-> calculate_irr(unlevered_entry_equity, unlevered_exit_equity,
                                      unlevered_cash_flows)]
    /\ pc' = "unlevered_irr"
    /\ UNCHANGED <<inp, ebitda_schedule, initial_cash_flows, debt_schedule,
                   financial_schedule, exit_vals, unlevered_cash_flows, levered,
                   cash_schedule, decomposition, args, result>>

CashSchedule ==
    /\ pc = "unlevered_irr"
    /\ cash_schedule' =
           calculate_cash_schedule(Column(financial_schedule, "Free_Cash_Flow"),
                                   Column(debt_schedule, "Debt_Paydown"))
    /\ pc' = "cash"
    /\ UNCHANGED <<inp, ebitda_schedule, initial_cash_flows, debt_schedule,
                   financial_schedule, exit_vals, unlevered_cash_flows, levered,
                   unlevered, decomposition, args, result>>

Decomposition ==
    /\ pc = "cash"
    /\ LET entry_multiple == RDiv(inp.entry_tev, inp.entry_ebitda)
       IN  decomposition' =
               calculate_irr_decomposition(inp.entry_ebitda, exit_vals.exit_ebitda,
                                           entry_multiple, inp.exit_multiple,
                                           levered.irr, unlevered.irr)
    /\ pc' = "done"
    /\ UNCHANGED <<inp, ebitda_schedule, initial_cash_flows, debt_schedule,
                   financial_schedule, exit_vals, unlevered_cash_flows, levered,
                   unlevered, cash_schedule, args, result>>

Next ==
    \/ EbitdaSchedule
    \/ InitialCashFlows
    \/ DebtSchedule
    \/ FinancialSchedule
    \/ ExitValues
    \/ UnleveredCashFlows
    \/ LeveredIrr
    \/ UnleveredIrr
    \/ CashSchedule
    \/ Decomposition

Spec == Init /\ [][Next]_vars

(***************************************************************************)
(* The calculator's methods as pure functions: the arguments are drawn     *)
(* from bounded sets and one action applies the method.                    *)
(***************************************************************************)
FlowVals == {RInt(k) : k \in -1 .. MaxFlow}

RateArgVals == {RNeg(Half), Zero, Half, One}

MainIdle ==
    /\ inp = Null
    /\ ebitda_schedule = Null
    /\ initial_cash_flows = Null
    /\ debt_schedule = Null
    /\ financial_schedule = Null
    /\ exit_vals = Null
    /\ unlevered_cash_flows = Null
    /\ levered = Null
    /\ unlevered = Null
    /\ cash_schedule = Null
    /\ decomposition = Null

MainVars == <<inp, ebitda_schedule, initial_cash_flows, debt_schedule,
              financial_schedule, exit_vals, unlevered_cash_flows, levered,
              unlevered, cash_schedule, decomposition>>

\* calculate_debt_schedule(entry_debt, interest_rate, available_cash_flow)
InitDebt ==
    /\ pc = "call"
    /\ args \in [entry_debt : {RInt(k) : k \in 0 .. MaxDebt},
                 interest_rate : RateArgVals,
                 available_cash_flow :
                     {f \in [YearRange -> FlowVals] : f[0] = Zero}]
    /\ result = Null
    /\ MainIdle

ApplyDebtSchedule ==
    /\ pc = "call"
    /\ result' = calculate_debt_schedule(args.entry_debt, args.interest_rate,
                                         args.available_cash_flow)
    /\ pc' = "return"
    /\ UNCHANGED <<args, MainVars>>

SpecDebt == InitDebt /\ [][ApplyDebtSchedule]_vars

\* calculate_irr(entry_equity, exit_equity, cash_flows); cash_flows[0] and
\* cash_flows[Years] are sliced away by the method.
InitIrr ==
    /\ pc = "call"
    /\ args \in [entry_equity : FlowVals,
                 exit_equity : FlowVals,
                 cash_flows :
                     {f \in [YearRange -> {RInt(-1), Zero, RInt(1)}] :
                         f[0] = Zero /\ f[Years] = RInt(1)}]
    /\ result = Null
    /\ MainIdle

ApplyIrr ==
    /\ pc = "call"
    /\ result' = calculate_irr(args.entry_equity, args.exit_equity, args.cash_flows)
    /\ pc' = "return"
    /\ UNCHANGED <<args, MainVars>>

SpecIrr == InitIrr /\ [][ApplyIrr]_vars

\* calculate_irr_decomposition(entry_ebitda, exit_ebitda, entry_multiple,
\*                             exit_multiple, levered_irr, unlevered_irr)
IrrArgVals ==
    {SConst(RNeg(Half)), SZero, SConst(Rat(1, 4)), SAtom(IrrAtom(<<1, -1, -1>>)),
     SSub(Root5(RInt(2)), SOne)}

InitDecomp ==
    /\ pc = "call"
    /\ args \in [entry_ebitda : EbitdaVals,
                 exit_ebitda : EbitdaVals \cup {RInt(32)},
                 entry_multiple : {RInt(k) : k \in 1 .. MaxTev} \cup {Half},
                 exit_multiple : ExitMultipleVals \cup {RInt(16)},
                 levered_irr : IrrArgVals,
                 unlevered_irr : IrrArgVals]
    /\ result = Null
    /\ MainIdle

ApplyDecomposition ==
    /\ pc = "call"
    /\ result' = calculate_irr_decomposition(args.entry_ebitda, args.exit_ebitda,
                                             args.entry_multiple, args.exit_multiple,
                                             args.levered_irr, args.unlevered_irr)
    /\ pc' = "return"
    /\ UNCHANGED <<args, MainVars>>

SpecDecomp == InitDecomp /\ [][ApplyDecomposition]_vars

(***************************************************************************)
(* Properties.                                                             *)
(***************************************************************************)
ProjectionYears == 1 .. Years

AfterFinancial ==
    pc \in {"financial", "exit", "unlevered_flows", "levered_irr",
            "unlevered_irr", "cash", "done"}

AfterLeveredIrr == pc \in {"levered_irr", "unlevered_irr", "cash", "done"}

AfterUnleveredIrr == pc \in {"unlevered_irr", "cash", "done"}

AfterCash == pc \in {"cash", "done"}

\* C1: in the schedule calculate_debt_schedule returns, every year y >= 1 has
\* beginning debt equal to the previous year's ending debt, ending debt equal
\* to beginning debt minus paydown, and 0 <= ending debt <= beginning debt, so
\* the balance never rises from Year 0 to Year 5 and is never negative.
C1_DebtChainsAndNeverRises ==
    pc = "return" =>
        /\ result[0].Ending_Debt = args.entry_debt
        /\ \A y \in ProjectionYears :
              /\ result[y].Beginning_Debt = result[y - 1].Ending_Debt
              /\ result[y].Ending_Debt =
                     RSub(result[y].Beginning_Debt, result[y].Debt_Paydown)
              /\ RLe(Zero, result[y].Ending_Debt)
              /\ RLe(result[y].Ending_Debt, result[y].Beginning_Debt)
              /\ RLe(result[y].Ending_Debt, result[y - 1].Ending_Debt)

\* C1 witness: a schedule in which debt is partly repaid in Year 1 and fully
\* repaid by Year 5, with cash to spare in the year the balance reaches zero.
C1_Witness ==
    /\ pc = "return"
    /\ RLt(Zero, result[1].Debt_Paydown)
    /\ RLt(Zero, result[1].Ending_Debt)
    /\ result[Years].Ending_Debt = Zero
    /\ \E y \in ProjectionYears :
          /\ RLt(Zero, result[y].Beginning_Debt)
          /\ RLt(result[y].Beginning_Debt,
                 RSub(args.available_cash_flow[y], result[y].Interest_Payment))

\* C2: for every year y >= 1 the debt paydown of the debt schedule equals
\* min(max(0, free cash flow of the financial schedule), beginning debt).
C2_PaydownIsFreeCashFlowCappedAtDebt ==
    AfterFinancial =>
        \A y \in ProjectionYears :
            debt_schedule[y].Debt_Paydown =
                RMin(RMax(Zero, financial_schedule[y].Free_Cash_Flow),
                     debt_schedule[y].Beginning_Debt)

\* C3: for every year y >= 1 of the financial schedule, free cash flow equals
\* EBT minus taxes, which is net income: capex is subtracted once, in EBIT
\* = EBITDA - capex, and is not added back.
C3_FreeCashFlowIsNetIncome ==
    AfterFinancial =>
        \A y \in ProjectionYears :
            LET row == financial_schedule[y]
                capex == RMul(row.EBITDA, inp.capex_pct)
                interest == debt_schedule[y].Interest_Payment
                ebit == RSub(row.EBITDA, capex)
                ebt == RSub(ebit, interest)
                taxes == RMax(Zero, RMul(ebt, inp.tax_rate))
            IN  /\ row.EBIT = ebit
                /\ row.EBT = ebt
                /\ row.Free_Cash_Flow = RSub(ebt, taxes)
                /\ row.Free_Cash_Flow = row.Net_Income

\* C4: in every year y >= 1 whose reported free cash flow is >= 0, the debt
\* paydown does not exceed that free cash flow, so the cash left after paydown
\* is >= 0 and ending cash is at least beginning cash in the cash schedule.
C4_PaydownWithinFreeCashFlow ==
    AfterCash =>
        \A y \in ProjectionYears :
            RLe(Zero, financial_schedule[y].Free_Cash_Flow) =>
                /\ RLe(debt_schedule[y].Debt_Paydown, financial_schedule[y].Free_Cash_Flow)
                /\ RLe(Zero, RSub(financial_schedule[y].Free_Cash_Flow,
                                  debt_schedule[y].Debt_Paydown))
                /\ cash_schedule[y].Ending_Cash =
                       RAdd(cash_schedule[y].Beginning_Cash,
                            RSub(financial_schedule[y].Free_Cash_Flow,
                                 debt_schedule[y].Debt_Paydown))
                /\ RLe(cash_schedule[y].Beginning_Cash, cash_schedule[y].Ending_Cash)

\* C4 witness: a finished run with interest-bearing debt in which some year
\* has free cash flow >= 0 and a positive paydown, and some year a shortfall.
C4_Witness ==
    /\ pc = "done"
    /\ RLt(Zero, inp.interest_rate)
    /\ \E y \in ProjectionYears :
          /\ RLe(Zero, financial_schedule[y].Free_Cash_Flow)
          /\ RLt(Zero, debt_schedule[y].Debt_Paydown)
          /\ RLt(Zero, debt_schedule[y].Interest_Payment)
    /\ \E y \in ProjectionYears :
          /\ RLe(Zero, financial_schedule[y].Free_Cash_Flow)
          /\ debt_schedule[y].Debt_Paydown = debt_schedule[y].Beginning_Debt
          /\ RLt(Zero, debt_schedule[y].Debt_Paydown)

\* C5: the exit equity used for the levered IRR equals exit TEV minus the
\* Year-5 ending debt plus the Year-5 ending cash of the cash schedule.
C5_ExitEquityNetsCash ==
    AfterCash =>
        /\ exit_vals.exit_equity =
               RAdd(RSub(exit_vals.exit_tev, debt_schedule[Years].Ending_Debt),
                    cash_schedule[Years].Ending_Cash)
        /\ levered.flows[Years] = exit_vals.exit_equity

\* C6: the levered flow vector is [-entryEquity, f_1, ..., f_4, f_5 + exitEquity]
\* where every f_y is zero (cash retention) or every f_y is the cash left after
\* paydown, free cash flow minus debt paydown (distribution); the final-year
\* flow is added to exit equity and no cash that repaid debt is an equity flow.
C6_LeveredFlowsAreDistributableCash ==
    AfterLeveredIrr =>
        LET remaining == [y \in ProjectionYears |->
                             RSub(financial_schedule[y].Free_Cash_Flow,
                                  debt_schedule[y].Debt_Paydown)]
            flows == levered.flows
        IN  /\ DOMAIN flows = YearRange
            /\ flows[0] = RNeg(exit_vals.entry_equity)
            /\ \/ /\ \A y \in 1 .. Years - 1 : flows[y] = Zero
                  /\ flows[Years] = exit_vals.exit_equity
               \/ /\ \A y \in 1 .. Years - 1 : flows[y] = remaining[y]
                  /\ flows[Years] = RAdd(remaining[Years], exit_vals.exit_equity)

\* C7: with entry debt 0 the levered and the unlevered calculation hand the
\* same flow vector to the IRR solver, so levered IRR equals unlevered IRR.
C7_NoDebtSameFlows ==
    (AfterUnleveredIrr /\ inp.entry_debt = Zero) =>
        /\ levered.flows = unlevered.flows
        /\ levered.irr = unlevered.irr

\* C8: when the flows have no sign change or the solver finds no solution,
\* calculate_irr returns a value distinguishable from a genuine IRR of exactly
\* zero; it never returns 0.0 in place of "no solution".
C8_NoSolutionIsNotZero ==
    pc = "return" =>
        LET flows == IrrFlows(args.entry_equity, args.exit_equity, args.cash_flows)
        IN  (NoSignChange(flows) \/ npf_irr(flows).nan) => result # SZero

\* C9: the components calculate_irr_decomposition returns satisfy TEV Growth
\* + Yield + Covariance + Leverage Impact = Levered IRR, with Covariance =
\* Unlevered IRR - (TEV Growth + Yield), Leverage Impact = Levered IRR -
\* Unlevered IRR and TEV Growth = (1 + EBITDA Growth)(1 + Multiple Change) - 1.
C9_DecompositionIdentity ==
    pc = "return" =>
        /\ SAdd(SAdd(result.TEV_Growth, result.Yield),
                SAdd(result.Covariance, result.Leverage_Impact)) = result.Levered_IRR
        /\ result.Levered_IRR = args.levered_irr
        /\ result.Unlevered_IRR = args.unlevered_irr
        /\ result.Covariance =
               SSub(result.Unlevered_IRR, SAdd(result.TEV_Growth, result.Yield))
        /\ result.Leverage_Impact = SSub(result.Levered_IRR, result.Unlevered_IRR)
        /\ result.TEV_Growth =
               SSub(SMul(SAdd(SOne, result.EBITDA_Growth),
                         SAdd(SOne, result.Multiple_Change)), SOne)
        /\ result.Yield = SConst(RDiv(One, args.entry_multiple))

\* C9 witness: a decomposition with EBITDA growth, a multiple change that is
\* an irrational fifth root, a levered IRR that is an irrational solver rate,
\* and a non-zero covariance and leverage impact.
C9_Witness ==
    /\ pc = "return"
    /\ result.EBITDA_Growth # SZero
    /\ SAtoms(result.Multiple_Change) # {}
    /\ SAtoms(result.Levered_IRR) # {}
    /\ result.Covariance # SZero
    /\ result.Leverage_Impact # SZero

\* C10: Year 0 is a row without flows in every schedule: interest, taxes,
\* capex, free cash flow, debt paydown and cash generation are zero, ending
\* debt = beginning debt = entry debt, ending cash = beginning cash = 0, and
\* so the beginning cash of Year 1 is 0.
C10_YearZeroHasNoFlows ==
    AfterCash =>
        /\ debt_schedule[0].Interest_Payment = Zero
        /\ debt_schedule[0].Debt_Paydown = Zero
        /\ debt_schedule[0].Beginning_Debt = inp.entry_debt
        /\ debt_schedule[0].Ending_Debt = inp.entry_debt
        /\ financial_schedule[0].Less_Interest = Zero
        /\ financial_schedule[0].Less_Taxes = Zero
        /\ financial_schedule[0].Less_Capex = Zero
        /\ financial_schedule[0].Free_Cash_Flow = Zero
        /\ cash_schedule[0].Cash_Generation = Zero
        /\ cash_schedule[0].Less_Debt_Paydown = Zero
        /\ cash_schedule[0].Beginning_Cash = Zero
        /\ cash_schedule[0].Ending_Cash = Zero
        /\ cash_schedule[1].Beginning_Cash = Zero

====
